---- MODULE Spec2Model ----
(***************************************************************************)
(* Model of the configuration parsing and rendering pipeline of the        *)
(* software page generator (templates/page_template.py and build.py), of   *)
(* the files build.py writes and of its batch loop, and of the folder      *)
(* monitor of the image uploader (upload_images.py).                       *)
(*                                                                         *)
(* A Python string is a sequence of symbols.  Ordinary characters are the  *)
(* one-character strings "a", "b", " ", "=", "|", "#", "[", "]".  The      *)
(* fixed native-language words of the config format (section names and     *)
(* keys) and the fixed literal pieces of the generated markup are single   *)
(* symbols, written in ASCII because the module text is ASCII:             *)
(*     "title" = 标题, "name" = 名称, "version" = 版本,                     *)
(*     "description" = 描述, "features" = 功能, "screenshots" = 截图,       *)
(*     "download_links" = 下载链接, "extra_info" = 额外信息,                *)
(*     "software_info" = 软件信息, "feature_list" = 功能介绍,               *)
(*     "screenshot_list" = 软件截图.                                        *)
(* A Python dict is a function whose domain is the set of keys present.    *)
(* Where the code tests isinstance(), values carry their type: Str, List,  *)
(* Dict.                                                                   *)
(***************************************************************************)
EXTENDS Integers, Sequences, FiniteSets, TLC

VARIABLES
    stem,              \* config_path.stem
    pc,                \* position of the run: next, open, scan, parsed, wordpress,
                       \* pure, preview, failed, done
    lines,             \* the lines of the file the for loop has taken so far
    current_section,   \* parse_config_file local
    software_info,     \* the dict parse_config_file builds and returns
    temp_downloads,    \* parse_config_file local
    temp_features,     \* parse_config_file local
    temp_screenshots,  \* parse_config_file local
    error,             \* TRUE once the except handler of parse_config_file has run
    wordpress_content, \* result of generate_wordpress_content
    html_content,      \* result of generate_pure_content
    files,             \* the files written so far: path -> text
    html_file,         \* the path generate_html_file returns
    preview_file,      \* the path generate_preview_file returns
    wrote,             \* the paths the current generate_content call has written
    configs,           \* the configs directory: stem -> lines of the .info file
    config_files,      \* generate_all_configs local: the globbed stems, in glob order
    index,             \* position of the for loop of generate_all_configs
    generated_files,   \* generate_all_configs local: the result list
    run,               \* number of the batch run
    passes,            \* history: one entry for each generate_content call that ended
    picgo_path,        \* ImageUploader field: the PicGo executable found, or None
    to_upload_dir,     \* the watched folder: file name -> the file dropped under it
    uploaded_dir,      \* the uploaded folder: the files moved there, with their URLs
    upload_history,    \* ImageUploader field: path -> URL
    upload_records,    \* upload_records.json: file name -> URL
    processed_files,   \* monitor_directory local: the paths handed to process_image
    new_files,         \* monitor_directory local: what is left of the for loop's set
    monitor_pc,        \* position of monitor_directory: scan, loop, stopped
    dropped,           \* history: number of files dropped into the watched folder
    calls              \* history: the files process_image was called on, in order

file_vars == <<files, html_file, preview_file, wrote>>
batch_vars == <<configs, config_files, index, generated_files, run, passes>>
monitor_vars == <<picgo_path, to_upload_dir, uploaded_dir, upload_history, upload_records,
                  processed_files, new_files, monitor_pc, dropped, calls>>

vars == <<stem, pc, lines, current_section, software_info, temp_downloads,
          temp_features, temp_screenshots, error, wordpress_content, html_content,
          file_vars, batch_vars, monitor_vars>>

-----------------------------------------------------------------------------
(* Bounds of the model *)

\* number of files dropped into the watched folder
MaxDrops == 3
\* longest config file drawn from the Software-Info family of lines
MaxInfoLines == 3
\* longest config file drawn from the list-section family of lines
MaxListLines == 3
\* longest config file drawn from the Feature-List family of lines
MaxFeatureLines == 5
\* longest download list of a Record handed directly to the renderer
MaxLinks == 9
\* longest title drawn freely from the title alphabet
MaxTitleLen == 2
\* how far the longest title goes beyond the length sanitize_filename keeps
MaxOverlong == 2
\* number of times the batch is run over the same configs directory
MaxRuns == 2
\* number of generate_content calls of a batch history in which an exception
\* is raised
MaxFaultyPasses == 1

-----------------------------------------------------------------------------
(* Python values *)

None == <<"None">>
Str(s) == [ty |-> "str", v |-> s]
List(l) == [ty |-> "list", v |-> l]
Dict(d) == [ty |-> "dict", v |-> d]

EmptyDict == [k \in {} |-> <<>>]

\* d[k] = v
Put(d, k, v) == [x \in (DOMAIN d) \cup {k} |-> IF x = k THEN v ELSE d[x]]

\* d.get(k, default)
Get(d, k, default) == IF k \in DOMAIN d THEN d[k] ELSE default

\* truth value of a str or a list: non-empty
Truthy(x) == x.v # <<>>

-----------------------------------------------------------------------------
(* Python string operations *)

Whitespace == {" "}

RECURSIVE lstrip(_)
lstrip(s) == IF s # <<>> /\ Head(s) \in Whitespace THEN lstrip(Tail(s)) ELSE s

RECURSIVE rstrip(_)
rstrip(s) ==
    IF s # <<>> /\ s[Len(s)] \in Whitespace THEN rstrip(SubSeq(s, 1, Len(s) - 1)) ELSE s

\* s.strip()
strip(s) == rstrip(lstrip(s))

\* s.find(sep) + 1: the first position where sep occurs in s, 0 if none
Find(s, sep) ==
    LET hits == {i \in 1..(Len(s) - Len(sep) + 1) : SubSeq(s, i, i + Len(sep) - 1) = sep}
    IN  IF hits = {} THEN 0 ELSE CHOOSE i \in hits : \A j \in hits : i <= j

\* sep in s
Contains(s, sep) == Find(s, sep) # 0

\* s.split(sep, 1) for a separator that occurs in s
SplitFirst(s, sep) ==
    LET i == Find(s, sep)
    IN  <<SubSeq(s, 1, i - 1), SubSeq(s, i + Len(sep), Len(s))>>

\* s.split(sep)
RECURSIVE Split(_, _)
Split(s, sep) ==
    IF ~Contains(s, sep) THEN <<s>>
    ELSE LET p == SplitFirst(s, sep) IN <<p[1]>> \o Split(p[2], sep)

\* s.split(): the maximal runs of non-whitespace characters
RECURSIVE SplitWhitespace(_)
SplitWhitespace(s) ==
    LET t == lstrip(s)
        ws == {i \in 1..Len(t) : t[i] \in Whitespace}
        e == IF ws = {} THEN Len(t) + 1 ELSE CHOOSE i \in ws : \A j \in ws : i <= j
    IN  IF t = <<>> THEN <<>>
        ELSE <<SubSeq(t, 1, e - 1)>> \o SplitWhitespace(SubSeq(t, e, Len(t)))

\* [f(x) for x in l]
StripAll(l) == [i \in 1..Len(l) |-> strip(l[i])]

-----------------------------------------------------------------------------
(* The vocabulary of the config format *)

SoftwareInfoSection == <<"software_info">>
FeatureListSection == <<"feature_list">>
ScreenshotListSection == <<"screenshot_list">>
DownloadLinksSection == <<"download_links">>
ExtraInfoSection == <<"extra_info">>

\* '1.0.0'
DefaultVersion == <<"1.0.0">>
\* the name of the fallback dict, 未知软件
UnknownSoftware == <<"unknown_software">>
\* the default of the name lookup, 未命名软件
UnnamedSoftware == <<"unnamed_software">>
\* the description of the fallback dict, 解析配置文件出错
ParseErrorMarker == <<"parse_error">>

-----------------------------------------------------------------------------
(* parse_config_file: the body of the for loop, one operator per section *)

\* not line or line.startswith('#')
IsSkippedBlankOnly(line) == line = <<>>
IsSkipped(line) == line = <<>> \/ Head(line) = "#"

\* line.startswith('[') and line.endswith(']')
IsSectionHeader(line) == line # <<>> /\ Head(line) = "[" /\ line[Len(line)] = "]"

\* line[1:-1].strip()
SectionName(line) == strip(SubSeq(line, 2, Len(line) - 1))

\* DescriptionValue that splits on every single "|"
DescriptionValueSplitOnPipe(value) ==
    IF Contains(value, <<"|", "|">>)
    THEN List(StripAll(Split(value, <<"|">>)))
    ELSE Str(value)

\* the value stored for a description line
DescriptionValue(value) ==
    IF Contains(value, <<"|", "|">>)
    THEN List(StripAll(Split(value, <<"|", "|">>)))
    ELSE Str(value)

\* current_section == '软件信息'
SoftwareInfoLine(info, line) ==
    IF Contains(line, <<"=">>)
    THEN LET kv == SplitFirst(line, <<"=">>)
             key == strip(kv[1])
             value == strip(kv[2])
         IN  IF key = <<"title">> THEN Put(info, "title", value)
             ELSE IF key = <<"name">> THEN Put(info, "name", value)
             ELSE IF key = <<"version">> THEN Put(info, "version", value)
             ELSE IF key = <<"description">>
                  THEN Put(info, "description", DescriptionValue(value))
             ELSE info
    ELSE info

\* FeatureLine that keeps the text after the last "=" instead of the first
FeatureLineAfterLastEquals(features, line) ==
    IF Contains(line, <<"=">>)
    THEN LET parts == Split(line, <<"=">>) IN Append(features, strip(parts[Len(parts)]))
    ELSE Append(features, strip(line))

\* current_section == '功能介绍'
FeatureLine(features, line) ==
    IF Contains(line, <<"=">>)
    THEN Append(features, strip(SplitFirst(line, <<"=">>)[2]))
    ELSE Append(features, strip(line))

\* ScreenshotInfo that reads a 3-part value as caption|url|attribution
ScreenshotInfoUrlSecond(value) ==
    IF Contains(value, <<"|">>)
    THEN LET parts == Split(value, <<"|">>)
         IN  IF Len(parts) >= 3
             THEN ("caption" :> strip(parts[1])) @@ ("attribution" :> strip(parts[3]))
                      @@ ("url" :> strip(parts[2]))
             ELSE IF Len(parts) = 2
             THEN ("caption" :> strip(parts[1])) @@ ("url" :> strip(parts[2]))
             ELSE ("url" :> value)
    ELSE ("url" :> value)

\* the dict built from the value of a screenshot line
ScreenshotInfo(value) ==
    IF Contains(value, <<"|">>)
    THEN LET parts == Split(value, <<"|">>)
         IN  IF Len(parts) >= 3
             THEN ("caption" :> strip(parts[1])) @@ ("attribution" :> strip(parts[2]))
                      @@ ("url" :> strip(parts[3]))
             ELSE IF Len(parts) = 2
             THEN ("caption" :> strip(parts[1])) @@ ("url" :> strip(parts[2]))
             ELSE ("url" :> value)
    ELSE ("url" :> value)

\* current_section == '软件截图'
ScreenshotLineVerbatim(screenshots, line) ==
    IF Contains(line, <<"=">>)
    THEN Append(screenshots, Dict(ScreenshotInfo(strip(SplitFirst(line, <<"=">>)[2]))))
    ELSE Append(screenshots, Dict(ScreenshotInfo(strip(line))))
ScreenshotLine(screenshots, line) ==
    IF Contains(line, <<"=">>)
    THEN Append(screenshots, Dict(ScreenshotInfo(strip(SplitFirst(line, <<"=">>)[2]))))
    ELSE screenshots

\* parse_download_line: the dict of a line, EmptyDict for a blank line
parse_download_line_last_part(l) ==
    LET line == strip(l)
        parts == SplitWhitespace(line)
    IN  IF line = <<>> THEN EmptyDict
        ELSE ("url" :> strip(parts[1]))
                 @@ ("code" :> IF Len(parts) = 1 THEN <<>> ELSE strip(parts[Len(parts)]))
parse_download_line(l) ==
    LET line == strip(l)
        parts == SplitWhitespace(line)
    IN  IF line = <<>> THEN EmptyDict
        ELSE IF Len(parts) = 1 THEN ("url" :> strip(parts[1])) @@ ("code" :> <<>>)
        ELSE IF Len(parts) >= 2
             THEN ("url" :> strip(parts[1])) @@ ("code" :> strip(parts[2]))
        ELSE EmptyDict

\* current_section == '下载链接'
DownloadLine(downloads, line) ==
    IF line # <<>> /\ Head(line) # "#"
    THEN LET link_info == parse_download_line(line)
         IN  IF DOMAIN link_info # {} THEN Append(downloads, Dict(link_info))
             ELSE downloads
    ELSE downloads

\* current_section == '额外信息'
ExtraInfoLine(info, line) ==
    LET started == IF "extra_info" \in DOMAIN info THEN info
                   ELSE Put(info, "extra_info", List(<<>>))
    IN  Put(started, "extra_info", List(Append(started["extra_info"].v, line)))

-----------------------------------------------------------------------------
(* parse_config_file: after the loop *)

\* the collected lists are attached only when they are non-empty
AttachCollected(info, features, screenshots, downloads) ==
    LET a == IF features # <<>> THEN Put(info, "features", features) ELSE info
        b == IF screenshots # <<>> THEN Put(a, "screenshots", screenshots) ELSE a
    IN  IF downloads # <<>> THEN Put(b, "download_links", downloads) ELSE b

\* DefaultTitle without the fallback to the name
DefaultTitleFromStemOnly(info, path_stem) ==
    IF "title" \notin DOMAIN info THEN Put(info, "title", path_stem) ELSE info

\* title from the name, else from the file stem
DefaultTitle(info, path_stem) ==
    IF "title" \notin DOMAIN info
    THEN IF "name" \in DOMAIN info THEN Put(info, "title", info["name"])
         ELSE Put(info, "title", path_stem)
    ELSE info

\* DefaultName with the placeholder of the fallback dict instead of the title
DefaultNameUnknown(info) ==
    IF "name" \notin DOMAIN info THEN Put(info, "name", UnknownSoftware) ELSE info

\* name from the title
DefaultName(info) ==
    IF "name" \notin DOMAIN info
    THEN Put(info, "name", Get(info, "title", UnnamedSoftware))
    ELSE info

DefaultVersionField(info) ==
    IF "version" \notin DOMAIN info THEN Put(info, "version", DefaultVersion) ELSE info

DefaultDescription(info) ==
    IF "description" \notin DOMAIN info THEN Put(info, "description", Str(<<>>)) ELSE info

\* FallbackInfo as an update of the dict built so far instead of a new dict
FallbackInfoKeepingCollected(info, path_stem) ==
    [k \in (DOMAIN info) \cup {"title", "name", "version", "description"} |->
        IF k = "title" THEN path_stem
        ELSE IF k = "name" THEN UnknownSoftware
        ELSE IF k = "version" THEN DefaultVersion
        ELSE IF k = "description" THEN Str(ParseErrorMarker)
        ELSE info[k]]

\* the dict the except handler returns
FallbackInfo(info, path_stem) ==
    ("title" :> path_stem) @@ ("name" :> UnknownSoftware) @@ ("version" :> DefaultVersion)
        @@ ("description" :> Str(ParseErrorMarker))

-----------------------------------------------------------------------------
(* generate_wordpress_content.  The result is the joined string: a sequence *)
(* of symbols in which every fixed piece of markup is one symbol and the    *)
(* line break "\n" is a symbol of its own.                                  *)

\* <h3>软件介绍</h3>
IntroHeading == "<h3>software_intro</h3>"
\* <h3>功能（使用）说明</h3>
FeaturesHeading == "<h3>feature_notes</h3>"
\* <h3>软件截图</h3>
ScreenshotsHeading == "<h3>software_screenshots</h3>"
\* <h3>软件下载</h3>
DownloadsHeading == "<h3>software_download</h3>"
\* <h3>其他信息</h3>
OtherInfoHeading == "<h3>other_info</h3>"

\* f"<p>{para}</p>\n"
Paragraph(para) == <<"<p>">> \o para \o <<"</p>", "\n">>

RECURSIVE Paragraphs(_)
Paragraphs(paras) ==
    IF paras = <<>> THEN <<>> ELSE Paragraph(Head(paras)) \o Paragraphs(Tail(paras))

\* 1. the introduction: the heading, the paragraphs of the description, a blank line
IntroPart(info) ==
    LET description == Get(info, "description", Str(<<>>))
    IN  <<IntroHeading, "\n">>
        \o (IF Truthy(description)
            THEN IF description.ty = "list" THEN Paragraphs(description.v)
                 ELSE Paragraph(description.v)
            ELSE <<>>)
        \o <<"\n">>

RECURSIVE ListItems(_)
ListItems(features) ==
    IF features = <<>> THEN <<>>
    ELSE (<<" <li>">> \o Head(features) \o <<"</li>", "\n">>) \o ListItems(Tail(features))

\* 2. the feature list
FeaturesPart(info) ==
    LET features == Get(info, "features", <<>>)
    IN  IF features # <<>>
        THEN <<FeaturesHeading, "\n", "<ol>", "\n">> \o ListItems(features)
                 \o <<"</ol>", "\n", "\n">>
        ELSE <<>>

\* f'软件截图 {i+1}', for the 0-based index i = n - 1
DefaultCaption(n) == <<"software_screenshot ", ToString(n)>>

\* the block of the n-th screenshot (n = i + 1)
ScreenshotBlock(screenshot, n) ==
    IF screenshot.ty = "dict"
    THEN LET caption == Get(screenshot.v, "caption", DefaultCaption(n))
             attribution == Get(screenshot.v, "attribution", <<>>)
             url == Get(screenshot.v, "url", <<>>)
         IN  (IF attribution # <<>>
              THEN <<"[insertimg caption='">> \o caption \o <<"' attribution='">>
                       \o attribution \o <<"']">>
              ELSE <<"[insertimg caption='">> \o caption \o <<"']">>)
             \o <<"<img src=\"">> \o url \o <<"\" />">>
             \o <<"[/insertimg]", "\n">>
    ELSE <<"[insertimg caption='">> \o DefaultCaption(n) \o <<"']">>
             \o <<"<img src=\"">> \o screenshot.v \o <<"\" />">>
             \o <<"[/insertimg]", "\n">>

RECURSIVE ScreenshotBlocks(_, _)
ScreenshotBlocks(screenshots, n) ==
    IF n > Len(screenshots) THEN <<>>
    ELSE ScreenshotBlock(screenshots[n], n) \o ScreenshotBlocks(screenshots, n + 1)

\* 3. the screenshots
ScreenshotsPart(info) ==
    LET screenshots == Get(info, "screenshots", <<>>)
    IN  IF screenshots # <<>>
        THEN <<ScreenshotsHeading, "\n">> \o ScreenshotBlocks(screenshots, 1) \o <<"\n">>
        ELSE <<>>

\* the short-code of one link
LinkShortCode(link_info) ==
    LET url == IF link_info.ty = "dict" THEN Get(link_info.v, "url", <<>>) ELSE link_info.v
        code == IF link_info.ty = "dict" THEN Get(link_info.v, "code", <<>>) ELSE <<>>
    IN  IF code # <<>> /\ strip(code) # <<>>
        THEN <<" [link url=\"">> \o url \o <<"\" code=\"">> \o code \o <<"\"][/link]">>
        ELSE <<" [link url=\"">> \o url \o <<"\"][/link]">>

\* the links, with a line break after every 4th (n = i + 1)
RECURSIVE LinkShortCodes(_, _)
LinkShortCodes(download_links, n) ==
    IF n > Len(download_links) THEN <<>>
    ELSE LinkShortCode(download_links[n])
             \o (IF n % 4 = 0 THEN <<"\n">> ELSE <<>>)
             \o LinkShortCodes(download_links, n + 1)

\* TrailingBreak that ends the block with a line break whatever the count
TrailingBreakAlways(download_links) == <<"\n">>

\* the line break that ends the last row when it is not full
TrailingBreak(download_links) == IF Len(download_links) % 4 # 0 THEN <<"\n">> ELSE <<>>

\* 4. the downloads
DownloadsPart(info) ==
    LET download_links == Get(info, "download_links", <<>>)
    IN  IF download_links # <<>>
        THEN <<DownloadsHeading, "\n", "[downloads]", "\n">>
                 \o LinkShortCodes(download_links, 1)
                 \o TrailingBreak(download_links)
                 \o <<"[/downloads]", "\n">>
        ELSE <<>>

\* the paragraphs of the entries that are not blank
RECURSIVE ExtraParagraphs(_)
ExtraParagraphs(paras) ==
    IF paras = <<>> THEN <<>>
    ELSE (IF Head(paras) # <<>> /\ strip(Head(paras)) # <<>>
          THEN Paragraph(Head(paras)) ELSE <<>>)
         \o ExtraParagraphs(Tail(paras))

\* 5. the extra information
ExtraInfoPart(info) ==
    LET extra_info == Get(info, "extra_info", Str(<<>>))
    IN  IF Truthy(extra_info)
        THEN IF extra_info.ty = "str" /\ strip(extra_info.v) # <<>>
             THEN <<"\n", OtherInfoHeading, "\n">> \o Paragraph(extra_info.v)
             ELSE IF extra_info.ty = "list" /\ extra_info.v # <<>>
             THEN <<"\n", OtherInfoHeading, "\n">> \o ExtraParagraphs(extra_info.v)
             ELSE <<>>
        ELSE <<>>

\* generate_wordpress_content with the downloads emitted before the screenshots
generate_wordpress_content_reordered(info) ==
    IntroPart(info) \o FeaturesPart(info) \o DownloadsPart(info)
        \o ScreenshotsPart(info) \o ExtraInfoPart(info)

generate_wordpress_content(info) ==
    IntroPart(info) \o FeaturesPart(info) \o ScreenshotsPart(info)
        \o DownloadsPart(info) \o ExtraInfoPart(info)

-----------------------------------------------------------------------------
(* generate_pure_content *)

\* what \s matches
RegexSpace == {" ", "\n"}

\* the end of the match of \n\n<p></p>\n? (spaces false) or \n\n<p>\s*</p>\n?
\* (spaces true) that starts at position i of s, 0 if there is none
MatchEmptyParagraph(s, i, spaces) ==
    IF i + 3 <= Len(s) /\ s[i] = "\n" /\ s[i + 1] = "\n" /\ s[i + 2] = "<p>"
    THEN LET rest == {k \in (i + 3)..Len(s) : s[k] \notin RegexSpace}
             k == IF rest = {} THEN 0 ELSE CHOOSE x \in rest : \A y \in rest : x <= y
         IN  IF k = 0 \/ s[k] # "</p>" \/ (~spaces /\ k # i + 3) THEN 0
             ELSE IF k < Len(s) /\ s[k + 1] = "\n" THEN k + 1 ELSE k
    ELSE 0

\* re.sub(pattern, '', s) from position i on: the text up to the leftmost
\* match is kept, the match dropped, and the search goes on behind it
RECURSIVE RemoveEmptyParagraphs(_, _, _)
RemoveEmptyParagraphs(s, i, spaces) ==
    LET starts == {j \in i..Len(s) : MatchEmptyParagraph(s, j, spaces) # 0}
    IN  IF starts = {} THEN SubSeq(s, i, Len(s))
        ELSE LET j == CHOOSE x \in starts : \A y \in starts : x <= y
             IN  SubSeq(s, i, j - 1)
                     \o RemoveEmptyParagraphs(s, MatchEmptyParagraph(s, j, spaces) + 1,
                                              spaces)

generate_pure_content_without_extra(info) ==
    IntroPart(info) \o FeaturesPart(info) \o ScreenshotsPart(info) \o DownloadsPart(info)
generate_pure_content(info) ==
    LET wp_content == generate_wordpress_content(info)
        extra_info == Get(info, "extra_info", Str(<<>>))
    IN  IF ~Truthy(extra_info) \/ (extra_info.ty = "str" /\ strip(extra_info.v) = <<>>)
        THEN RemoveEmptyParagraphs(RemoveEmptyParagraphs(wp_content, 1, FALSE), 1, TRUE)
        ELSE wp_content

-----------------------------------------------------------------------------
(* sanitize_filename and the files of build.py *)

\* the characters of the class [\\/*?:"<>|]
ForbiddenChars == {"\\", "/", "*", "?", ":", "\"", "<", ">", "|"}

\* the longest name sanitize_filename returns
MaxFilenameLength == 100

\* re.sub(r'[\\/*?:"<>|]', '', filename)
RemoveForbidden(filename) == SelectSeq(filename, LAMBDA c : c \notin ForbiddenChars)

\* filename.replace(' ', '_')
ReplaceSpaces(filename) ==
    [i \in 1..Len(filename) |-> IF filename[i] = " " THEN "_" ELSE filename[i]]

\* filename[:100] when the name is longer
TruncateKeepingTail(filename) ==
    IF Len(filename) > MaxFilenameLength
    THEN SubSeq(filename, Len(filename) - MaxFilenameLength + 1, Len(filename))
    ELSE filename
Truncate(filename) ==
    IF Len(filename) > MaxFilenameLength THEN SubSeq(filename, 1, MaxFilenameLength)
    ELSE filename

sanitize_filename(filename) == Truncate(ReplaceSpaces(RemoveForbidden(filename)))

\* 'software', the title generate_html_file and generate_preview_file fall back to
DefaultSoftware == <<"s", "o", "f", "t", "w", "a", "r", "e">>
\* 未设置
NotSet == <<"not_set">>
\* 软件页面
SoftwarePage == <<"software_page">>

\* content_dir / (safe_title + "_wordpress.txt")
ContentPath(safe_title) == <<"contents/">> \o safe_title \o <<"_wordpress.txt">>
\* output_dir / f"{safe_title}.html"
HtmlPath(safe_title) == <<"output/">> \o safe_title \o <<".html">>
\* preview_dir / f"{safe_title}_preview.html"
PreviewPath(safe_title) == <<"previews/">> \o safe_title \o <<"_preview.html">>

\* write_text, open(path, 'w') and write: the file holds the text and nothing else
WriteTextAppending(fs, path, text) ==
    Put(fs, path, Get(fs, path, <<>>) \o text)
WriteText(fs, path, text) == Put(fs, path, text)

\* the file name the file-info box of the preview page shows
ShownFileName(info) == ReplaceSpaces(Get(info, "title", DefaultSoftware)) \o <<".html">>

\* the preview page; the fixed text between the holes of the f-string is one
\* symbol each
generate_html_embed(info) ==
    LET content == generate_wordpress_content(info)
        page_title == Get(info, "title", Get(info, "name", SoftwarePage))
    IN  <<"<html><head><title>">> \o page_title
            \o <<" - preview</title>...<div class=\"file-info\">title: ">>
            \o Get(info, "title", NotSet)
            \o <<"<br>name: ">> \o Get(info, "name", NotSet)
            \o <<"<br>version: ">> \o Get(info, "version", DefaultVersion)
            \o <<"<br>file: ">> \o ShownFileName(info)
            \o <<"</div>...<div class=\"code-block\">\n">>
            \o content
            \o <<"\n</div>...</html>">>

-----------------------------------------------------------------------------
(* The inputs: config files and Records *)

Header(name) == <<"[">> \o name \o <<"]">>

\* lines of a file about the Software-Info section
InfoLines ==
    { Header(SoftwareInfoSection), Header(<<"a">>), <<" ">>, <<"#", "a">>,
      <<"title", " ", "=", " ", "a">>, <<"title", " ", "=">>,
      <<" ", "title", "=", "b", " ">>, <<"title">>,
      <<"name", " ", "=", " ", "b">>, <<"name", "=">>,
      <<"version", "=", "b">>,
      <<"description", "=", "a">>, <<"description", "=">>,
      <<"description", "=", "a", "|", "b">>,
      <<"description", "=", "a", "|", "|", " ", "b">>,
      <<"description", "=", "a", " ", "|", "|", "b", "|", "|", "a">>,
      <<"description", "=", "a", "|", "|", "|", "b">>,
      <<"a", " ", "=", " ", "b">> }

\* lines of a file about the list sections
ListLines ==
    { Header(FeatureListSection), Header(ScreenshotListSection),
      Header(DownloadLinksSection), Header(ExtraInfoSection),
      <<"a">>, <<"b", " ", "=", " ", "a">>,
      <<"b", "=", "a", "|", "b">>, <<"b", "=", "a", " ", "|", "b", "|", "a">>,
      <<"b", "=", "a", "|", "b", "|", "a", "|", "b">>, <<"b", "=", "a", "|", "|", "b">>,
      <<"a", " ", "b">>, <<"a", " ", " ", "b", " ", "a">>,
      <<" ">>, <<"#", "a">> }

\* lines of a file whose Feature-List section is interrupted and resumed
FeatureLines ==
    { Header(FeatureListSection), Header(<<"a">>),
      <<"a">>, <<"b", " ", "=", " ", "a">>, <<"a", "=", "b", "=", "a">> }

AllLines == InfoLines \cup ListLines \cup FeatureLines

\* t is the beginning of a config file of one of the three families
IsInput(t) ==
    \/ Len(t) <= MaxInfoLines /\ \A i \in 1..Len(t) : t[i] \in InfoLines
    \/ Len(t) <= MaxListLines /\ \A i \in 1..Len(t) : t[i] \in ListLines
    \/ Len(t) <= MaxFeatureLines /\ \A i \in 1..Len(t) : t[i] \in FeatureLines

Stems == {<<"s">>}

\* a download list of n links: none with a code, all with a code, or the odd
\* ones with a code and the even ones with a blank code
LinkList(n, pattern) ==
    [i \in 1..n |->
        Dict(("url" :> <<"u", ToString(i)>>)
             @@ ("code" :> (IF pattern = "all" \/ (pattern = "odd" /\ i % 2 = 1) THEN <<"c">>
                            ELSE IF pattern = "odd" THEN <<" ">> ELSE <<>>)))]

Fragments(key, values) == {EmptyDict} \cup {key :> v : v \in values}

\* Records handed to the renderer by a caller
Records ==
    { (("title" :> <<"a">>) @@ ("name" :> <<"b">>) @@ ("version" :> DefaultVersion))
          @@ d @@ f @@ s @@ l @@ e :
        d \in Fragments("description",
                { Str(<<>>), Str(<<" ">>), Str(<<"a">>), List(<<<<"a">>, <<"b">>>>),
                  List(<<<<>>, <<" ">>>>) }),
        f \in Fragments("features", {<<<<"a">>, <<"b">>>>}),
        s \in Fragments("screenshots",
                { <<Dict("url" :> <<"u">>)>>,
                  <<Dict(("caption" :> <<"a">>) @@ ("url" :> <<"u">>)),
                    Dict(("caption" :> <<"a">>) @@ ("attribution" :> <<"b">>)
                             @@ ("url" :> <<"u">>)),
                    Str(<<"u">>)>> }),
        l \in Fragments("download_links",
                {LinkList(n, p) : n \in 1..MaxLinks, p \in {"none", "all", "odd"}}),
        e \in Fragments("extra_info",
                { Str(<<>>), Str(<<" ">>), Str(<<"a">>), List(<<>>), List(<<<<" ">>>>),
                  List(<<<<>>, <<" ">>>>), List(<<<<"a">>>>), List(<<<<" ">>, <<"a">>>>) }) }

-----------------------------------------------------------------------------
(* The image uploader (upload_images.py): the watched folder and its files  *)
(*                                                                         *)
(* A file name is the pair of its stem and its suffix; a path in the       *)
(* watched folder is represented by the file name.  The files dropped into *)
(* the folder are numbered in the order they are dropped, so that two      *)
(* files dropped under the same name are different files.                  *)

\* the suffixes monitor_directory globs for
Extensions == {".png", ".jpg", ".jpeg", ".gif", ".bmp", ".webp"}

\* ext.upper()
upper(ext) ==
    CASE ext = ".png"  -> ".PNG"
      [] ext = ".jpg"  -> ".JPG"
      [] ext = ".jpeg" -> ".JPEG"
      [] ext = ".gif"  -> ".GIF"
      [] ext = ".bmp"  -> ".BMP"
      [] ext = ".webp" -> ".WEBP"

\* to_upload_dir.glob("*" + suffix)
glob(dir, suffix) == {name \in DOMAIN dir : name[2] = suffix}

\* the set the scan of monitor_directory collects
CurrentFiles(dir) ==
    UNION {glob(dir, ext) \cup glob(dir, upper(ext)) : ext \in Extensions}

\* the names under which files are dropped: images and one other file
FileNames == {<<"a", ".png">>, <<"b", ".JPG">>, <<"n", ".txt">>}

\* the URL the image host gives to a file
UrlOf(file) == <<"https://", file>>

\* upload_and_get_url: fetched is the URL found in the output of PicGo or on
\* the clipboard, None when there is none or the command failed; without a
\* PicGo executable nothing is run; the last resort is the history
upload_and_get_url(path, fetched) ==
    IF picgo_path = None THEN None
    ELSE IF fetched # None THEN fetched
    ELSE IF path \in DOMAIN upload_history THEN upload_history[path]
    ELSE None

\* the uploader is not in use
UploaderIdle ==
    /\ picgo_path = None
    /\ to_upload_dir = EmptyDict
    /\ uploaded_dir = {}
    /\ upload_history = EmptyDict
    /\ upload_records = EmptyDict
    /\ processed_files = {}
    /\ new_files = {}
    /\ monitor_pc = "idle"
    /\ dropped = 0
    /\ calls = <<>>

-----------------------------------------------------------------------------
(* The run of generate_content over one config file *)

Init ==
    /\ stem \in Stems
    /\ pc = "open"
    /\ lines = <<>>
    /\ current_section = None
    /\ software_info = EmptyDict
    /\ temp_downloads = <<>>
    /\ temp_features = <<>>
    /\ temp_screenshots = <<>>
    /\ error = FALSE
    /\ wordpress_content = <<>>
    /\ html_content = <<>>
    /\ files = EmptyDict
    /\ html_file = None
    /\ preview_file = None
    /\ wrote = {}
    /\ configs = EmptyDict
    /\ config_files = <<>>
    /\ index = 1
    /\ generated_files = <<>>
    /\ run = 1
    /\ passes = <<>>
    /\ UploaderIdle

\* the file is opened and read, the locals are set
OpenConfig ==
    /\ pc = "open"
    /\ pc' = "scan"
    /\ current_section' = None
    /\ temp_downloads' = <<>>
    /\ temp_features' = <<>>
    /\ temp_screenshots' = <<>>
    /\ UNCHANGED <<stem, lines, software_info, error, wordpress_content, html_content>>
    /\ UNCHANGED <<file_vars, batch_vars, monitor_vars>>

\* one pass of the for loop over the next line of the file
ScanLine ==
    /\ pc = "scan"
    /\ \E raw \in AllLines :
         /\ IsInput(Append(lines, raw))
         /\ lines' = Append(lines, raw)
         /\ LET line == strip(raw)
            IN  IF IsSkipped(line)
                THEN UNCHANGED <<current_section, software_info, temp_downloads,
                                 temp_features, temp_screenshots>>
                ELSE IF IsSectionHeader(line)
                THEN /\ current_section' = SectionName(line)
                     /\ UNCHANGED <<software_info, temp_downloads, temp_features,
                                    temp_screenshots>>
                ELSE /\ current_section' = current_section
                     /\ software_info' =
                            IF current_section = SoftwareInfoSection
                            THEN SoftwareInfoLine(software_info, line)
                            ELSE IF current_section = ExtraInfoSection
                            THEN ExtraInfoLine(software_info, line)
                            ELSE software_info
                     /\ temp_features' =
                            IF current_section = FeatureListSection
                            THEN FeatureLine(temp_features, line) ELSE temp_features
                     /\ temp_screenshots' =
                            IF current_section = ScreenshotListSection
                            THEN ScreenshotLine(temp_screenshots, line)
                            ELSE temp_screenshots
                     /\ temp_downloads' =
                            IF current_section = DownloadLinksSection
                            THEN DownloadLine(temp_downloads, line) ELSE temp_downloads
    /\ UNCHANGED <<stem, pc, error, wordpress_content, html_content>>
    /\ UNCHANGED <<file_vars, batch_vars, monitor_vars>>

\* the loop has ended: the lists are attached, the defaults filled in, the dict returned
FinishParse ==
    /\ pc = "scan"
    /\ software_info' =
           DefaultDescription(DefaultVersionField(DefaultName(DefaultTitle(
               AttachCollected(software_info, temp_features, temp_screenshots,
                               temp_downloads), stem))))
    /\ pc' = "parsed"
    /\ UNCHANGED <<stem, lines, current_section, temp_downloads, temp_features,
                   temp_screenshots, error, wordpress_content, html_content>>
    /\ UNCHANGED <<file_vars, batch_vars, monitor_vars>>

\* an exception is raised in the try block (by open or read, or later while
\* the lines are scanned) and the except handler returns the fallback dict
RaiseError ==
    /\ pc \in {"open", "scan"}
    /\ software_info' = FallbackInfo(software_info, stem)
    /\ error' = TRUE
    /\ pc' = "parsed"
    /\ UNCHANGED <<stem, lines, current_section, temp_downloads, temp_features,
                   temp_screenshots, wordpress_content, html_content>>
    /\ UNCHANGED <<file_vars, batch_vars, monitor_vars>>

GenerateWordpressContent ==
    /\ pc = "parsed"
    /\ wordpress_content' = generate_wordpress_content(software_info)
    /\ pc' = "wordpress"
    /\ UNCHANGED <<stem, lines, current_section, software_info, temp_downloads,
                   temp_features, temp_screenshots, error, html_content>>
    /\ UNCHANGED <<file_vars, batch_vars, monitor_vars>>

GeneratePureContent ==
    /\ pc = "wordpress"
    /\ html_content' = generate_pure_content(software_info)
    /\ pc' = "pure"
    /\ UNCHANGED <<stem, lines, current_section, software_info, temp_downloads,
                   temp_features, temp_screenshots, error, wordpress_content>>
    /\ UNCHANGED <<file_vars, batch_vars, monitor_vars>>

\* generate_content: the payload is rendered and saved under the contents directory
SaveWordpressContent ==
    /\ pc = "parsed"
    /\ wordpress_content' = generate_wordpress_content(software_info)
    /\ LET software_title == Get(software_info, "title", stem)
           content_file == ContentPath(sanitize_filename(software_title))
       IN  /\ files' = WriteText(files, content_file, wordpress_content')
           /\ wrote' = wrote \cup {content_file}
    /\ pc' = "wordpress"
    /\ UNCHANGED <<stem, lines, current_section, software_info, temp_downloads,
                   temp_features, temp_screenshots, error, html_content,
                   html_file, preview_file, batch_vars, monitor_vars>>

\* generate_html_file: the pure content is written under the output directory
GenerateHtmlFile ==
    /\ pc = "wordpress"
    /\ html_content' = generate_pure_content(software_info)
    /\ LET software_title == Get(software_info, "title", DefaultSoftware)
           safe_title == sanitize_filename(software_title)
       IN  /\ files' = WriteText(files, HtmlPath(safe_title), html_content')
           /\ wrote' = wrote \cup {HtmlPath(safe_title)}
           /\ html_file' = HtmlPath(safe_title)
    /\ pc' = "pure"
    /\ UNCHANGED <<stem, lines, current_section, software_info, temp_downloads,
                   temp_features, temp_screenshots, error, wordpress_content,
                   preview_file, batch_vars, monitor_vars>>

\* generate_preview_file: the preview page is written under the previews directory
GeneratePreviewFile ==
    /\ pc = "pure"
    /\ LET software_title == Get(software_info, "title", DefaultSoftware)
           safe_title == sanitize_filename(software_title)
       IN  /\ files' = WriteText(files, PreviewPath(safe_title),
                                 generate_html_embed(software_info))
           /\ wrote' = wrote \cup {PreviewPath(safe_title)}
           /\ preview_file' = PreviewPath(safe_title)
    /\ pc' = "preview"
    /\ UNCHANGED <<stem, lines, current_section, software_info, temp_downloads,
                   temp_features, temp_screenshots, error, wordpress_content,
                   html_content, html_file, batch_vars, monitor_vars>>

Next ==
    \/ OpenConfig
    \/ ScanLine
    \/ FinishParse
    \/ RaiseError
    \/ SaveWordpressContent
    \/ GenerateHtmlFile
    \/ GeneratePreviewFile

Spec == Init /\ [][Next]_vars

-----------------------------------------------------------------------------
(* The renderer called on a Record that a caller built *)

InitRender ==
    /\ stem \in Stems
    /\ pc = "parsed"
    /\ lines = <<>>
    /\ current_section = None
    /\ software_info \in Records
    /\ temp_downloads = <<>>
    /\ temp_features = <<>>
    /\ temp_screenshots = <<>>
    /\ error = FALSE
    /\ wordpress_content = <<>>
    /\ html_content = <<>>
    /\ files = EmptyDict
    /\ html_file = None
    /\ preview_file = None
    /\ wrote = {}
    /\ configs = EmptyDict
    /\ config_files = <<>>
    /\ index = 1
    /\ generated_files = <<>>
    /\ run = 1
    /\ passes = <<>>
    /\ UploaderIdle

NextRender ==
    \/ GenerateWordpressContent
    \/ GeneratePureContent

SpecRender == InitRender /\ [][NextRender]_vars

-----------------------------------------------------------------------------
(* The files written for a Record whose title is any string *)

TitleAlphabet == {"a", " ", "_"} \cup ForbiddenChars

Pad(n) == [i \in 1..n |-> "a"]

\* the short titles over the alphabet, and titles about as long as the longest
\* name kept, with a kept, a replaced or a removed character at either end
Titles ==
    UNION {[1..n -> TitleAlphabet] : n \in 0..MaxTitleLen}
        \cup { h \o Pad(n) \o t :
                 h \in {<<>>, <<" ">>, <<":">>}, t \in {<<>>, <<" ">>, <<"|">>},
                 n \in (MaxFilenameLength - 2)..(MaxFilenameLength + MaxOverlong) }

TitledRecords ==
    { ("name" :> <<"b">>) @@ ("version" :> DefaultVersion)
          @@ ("description" :> Str(<<"a">>)) @@ t :
        t \in {EmptyDict} \cup {"title" :> x : x \in Titles} }

InitNames ==
    /\ stem \in Stems
    /\ pc = "parsed"
    /\ lines = <<>>
    /\ current_section = None
    /\ software_info \in TitledRecords
    /\ temp_downloads = <<>>
    /\ temp_features = <<>>
    /\ temp_screenshots = <<>>
    /\ error = FALSE
    /\ wordpress_content = <<>>
    /\ html_content = <<>>
    /\ files = EmptyDict
    /\ html_file = None
    /\ preview_file = None
    /\ wrote = {}
    /\ configs = EmptyDict
    /\ config_files = <<>>
    /\ index = 1
    /\ generated_files = <<>>
    /\ run = 1
    /\ passes = <<>>
    /\ UploaderIdle

NextNames ==
    \/ SaveWordpressContent
    \/ GenerateHtmlFile
    \/ GeneratePreviewFile

SpecNames == InitNames /\ [][NextNames]_vars

-----------------------------------------------------------------------------
(* The batch: generate_all_configs over the configs directory, run again    *)
(* over the same directory                                                  *)

BatchStems == {<<"s">>, <<"a">>}

\* the config files of the directory
BatchTexts ==
    { <<>>,
      <<Header(SoftwareInfoSection), <<" ", "title", "=", "b", " ">>>>,
      <<Header(SoftwareInfoSection), <<"title", " ", "=", " ", "a">>,
        <<"description", "=", "a">>>> }

\* the orders in which glob may list the files
Orderings(S) ==
    {q \in [1..Cardinality(S) -> S] : \A i, j \in 1..Cardinality(S) : q[i] = q[j] => i = j}

InitBatch ==
    /\ \E S \in SUBSET BatchStems :
          /\ configs \in [S -> BatchTexts]
          /\ config_files \in Orderings(S)
    /\ index = 1
    /\ generated_files = <<>>
    /\ run = 1
    /\ passes = <<>>
    /\ UploaderIdle
    /\ pc = "next"
    /\ stem = None
    /\ lines = <<>>
    /\ current_section = None
    /\ software_info = EmptyDict
    /\ temp_downloads = <<>>
    /\ temp_features = <<>>
    /\ temp_screenshots = <<>>
    /\ error = FALSE
    /\ wordpress_content = <<>>
    /\ html_content = <<>>
    /\ files = EmptyDict
    /\ html_file = None
    /\ preview_file = None
    /\ wrote = {}

\* the for loop takes the next config file and calls generate_content, which
\* returns at once when the file does not exist
StartPass ==
    /\ pc = "next"
    /\ index <= Len(config_files)
    /\ stem' = config_files[index]
    /\ pc' = IF config_files[index] \in DOMAIN configs THEN "open" ELSE "failed"
    /\ UNCHANGED <<lines, current_section, software_info, temp_downloads, temp_features,
                   temp_screenshots, error, wordpress_content, html_content,
                   file_vars, batch_vars, monitor_vars>>

\* the for loop of parse_config_file over the next line of the file on disk
ScanLineOfFile ==
    /\ pc = "scan"
    /\ Len(lines) < Len(configs[stem])
    /\ ScanLine
    /\ lines' = Append(lines, configs[stem][Len(lines) + 1])

\* the lines of the file on disk are exhausted
FinishParseOfFile ==
    /\ pc = "scan"
    /\ lines = configs[stem]
    /\ FinishParse

\* the calls that ended with an exception raised in them
FaultyPasses == Cardinality({k \in 1..Len(passes) : passes[k].error \/ ~passes[k].ok})

\* one more exception may be raised in the current call
MayFail == error \/ FaultyPasses < MaxFaultyPasses

\* the config file on disk cannot be read, or an exception is raised while
\* its lines are scanned
RaiseErrorOfFile ==
    /\ MayFail
    /\ RaiseError

\* an exception is raised in the try block of generate_content, after the
\* config is parsed: the except handler returns None, "", None, None
FailPass ==
    /\ MayFail
    /\ pc \in {"parsed", "wordpress", "pure", "preview"}
    /\ pc' = "failed"
    /\ html_file' = None
    /\ preview_file' = None
    /\ UNCHANGED <<stem, lines, current_section, software_info, temp_downloads,
                   temp_features, temp_screenshots, error, wordpress_content,
                   html_content, files, wrote, batch_vars, monitor_vars>>

\* what generate_content hands back to the loop
ReturnValue ==
    IF pc = "failed"
    THEN [software_info |-> [ty |-> "none", v |-> EmptyDict],
          html_file |-> None, preview_file |-> None]
    ELSE [software_info |-> Dict(software_info),
          html_file |-> html_file, preview_file |-> preview_file]

\* if software_info and html_file and preview_file
SucceededAlways(result) == TRUE
Succeeded(result) ==
    /\ result.software_info.ty = "dict" /\ DOMAIN result.software_info.v # {}
    /\ result.html_file # None
    /\ result.preview_file # None

\* generate_content has returned: the loop appends the config to the result
\* list if it succeeded, and goes on to the next file
EndPass ==
    /\ pc \in {"preview", "failed"}
    /\ generated_files' =
           IF Succeeded(ReturnValue)
           THEN Append(generated_files,
                       <<stem, ReturnValue.html_file, ReturnValue.preview_file>>)
           ELSE generated_files
    /\ passes' = Append(passes, [run |-> run, config |-> stem, ok |-> pc = "preview",
                                 error |-> error, info |-> software_info,
                                 wrote |-> [path \in wrote |-> files[path]]])
    /\ index' = index + 1
    /\ pc' = "next"
    /\ stem' = None
    /\ lines' = <<>>
    /\ current_section' = None
    /\ software_info' = EmptyDict
    /\ temp_downloads' = <<>>
    /\ temp_features' = <<>>
    /\ temp_screenshots' = <<>>
    /\ error' = FALSE
    /\ wordpress_content' = <<>>
    /\ html_content' = <<>>
    /\ html_file' = None
    /\ preview_file' = None
    /\ wrote' = {}
    /\ UNCHANGED <<files, configs, config_files, run, monitor_vars>>

\* the loop is over: generate_all_configs returns the result list
EndBatch ==
    /\ pc = "next"
    /\ index > Len(config_files)
    /\ pc' = "done"
    /\ UNCHANGED <<stem, lines, current_section, software_info, temp_downloads,
                   temp_features, temp_screenshots, error, wordpress_content,
                   html_content, file_vars, batch_vars, monitor_vars>>

\* the program is started again over the same configs directory
RunAgain ==
    /\ pc = "done"
    /\ run < MaxRuns
    /\ run' = run + 1
    /\ index' = 1
    /\ generated_files' = <<>>
    /\ pc' = "next"
    /\ UNCHANGED <<stem, lines, current_section, software_info, temp_downloads,
                   temp_features, temp_screenshots, error, wordpress_content,
                   html_content, file_vars, configs, config_files, passes,
                   monitor_vars>>

\* one run of generate_all_configs
NextRun ==
    \/ StartPass
    \/ OpenConfig
    \/ ScanLineOfFile
    \/ FinishParseOfFile
    \/ RaiseErrorOfFile
    \/ SaveWordpressContent
    \/ GenerateHtmlFile
    \/ GeneratePreviewFile
    \/ FailPass
    \/ EndPass
    \/ EndBatch

\* the runs of the program over the same configs directory, one after another
NextBatch ==
    \/ NextRun
    \/ RunAgain

SpecBatch == InitBatch /\ [][NextBatch]_vars

\* one run, which the interpreter carries on: no step that can be taken is
\* put off for ever
SpecBatchFair == InitBatch /\ [][NextRun]_vars /\ WF_vars(NextRun)

-----------------------------------------------------------------------------
(* The upload monitor: monitor_directory polling the watched folder while   *)
(* files are dropped into it                                               *)

InitMonitor ==
    /\ picgo_path \in {None, <<"PicGo.exe">>}
    /\ to_upload_dir = EmptyDict
    /\ uploaded_dir = {}
    /\ upload_history = EmptyDict
    /\ upload_records = EmptyDict
    /\ processed_files = {}
    /\ new_files = {}
    /\ monitor_pc = "scan"
    /\ dropped = 0
    /\ calls = <<>>
    /\ stem = None
    /\ pc = "done"
    /\ lines = <<>>
    /\ current_section = None
    /\ software_info = EmptyDict
    /\ temp_downloads = <<>>
    /\ temp_features = <<>>
    /\ temp_screenshots = <<>>
    /\ error = FALSE
    /\ wordpress_content = <<>>
    /\ html_content = <<>>
    /\ files = EmptyDict
    /\ html_file = None
    /\ preview_file = None
    /\ wrote = {}
    /\ configs = EmptyDict
    /\ config_files = <<>>
    /\ index = 1
    /\ generated_files = <<>>
    /\ run = 1
    /\ passes = <<>>

generator_vars ==
    <<stem, pc, lines, current_section, software_info, temp_downloads, temp_features,
      temp_screenshots, error, wordpress_content, html_content, file_vars, batch_vars>>

\* the user drops a file into the watched folder, under a name that is free
DropFile ==
    /\ monitor_pc \in {"scan", "loop"}
    /\ dropped < MaxDrops
    /\ \E name \in FileNames :
          /\ name \notin DOMAIN to_upload_dir
          /\ to_upload_dir' = Put(to_upload_dir, name, dropped + 1)
    /\ dropped' = dropped + 1
    /\ UNCHANGED <<picgo_path, uploaded_dir, upload_history, upload_records,
                   processed_files, new_files, monitor_pc, calls, generator_vars>>

\* the top of the while loop: the folder is globbed and the new files found
ScanFolder ==
    /\ monitor_pc = "scan"
    /\ new_files' = CurrentFiles(to_upload_dir) \ processed_files
    /\ monitor_pc' = "loop"
    /\ UNCHANGED <<picgo_path, to_upload_dir, uploaded_dir, upload_history,
                   upload_records, processed_files, dropped, calls, generator_vars>>

\* what process_image does with the file once it has a URL: the file is moved
\* and the URL saved, or rename raises, or the file is moved and writing the
\* URL file raises
MoveOutcomes == {"moved", "rename_failed", "url_file_failed"}

\* one pass of the for loop: process_image is called on a new file, which is
\* added to processed_files whether the call succeeded or not
ProcessImage ==
    /\ monitor_pc = "loop"
    /\ new_files # {}
    /\ \E image_path \in new_files :
          LET file == to_upload_dir[image_path]
          IN  \E fetched \in {None, UrlOf(file)}, outcome \in MoveOutcomes :
                LET url == upload_and_get_url(image_path, fetched)
                    moved == url # None /\ outcome # "rename_failed"
                    saved == url # None /\ outcome = "moved"
                IN  /\ url = None => outcome = "moved"
                    /\ calls' = Append(calls, [path |-> image_path, file |-> file,
                                               success |-> url # None])
                    /\ upload_history' =
                           IF picgo_path # None /\ fetched # None
                           THEN Put(upload_history, image_path, fetched)
                           ELSE upload_history
                    /\ to_upload_dir' =
                           IF moved
                           THEN [name \in DOMAIN to_upload_dir \ {image_path} |->
                                     to_upload_dir[name]]
                           ELSE to_upload_dir
                    /\ uploaded_dir' =
                           IF moved
                           THEN uploaded_dir \cup
                                    {[name |-> image_path, file |-> file,
                                      url |-> IF saved THEN url ELSE None]}
                           ELSE uploaded_dir
                    /\ upload_records' =
                           IF saved THEN Put(upload_records, image_path, url)
                           ELSE upload_records
                    /\ processed_files' = processed_files \cup {image_path}
                    /\ new_files' = new_files \ {image_path}
    /\ UNCHANGED <<picgo_path, monitor_pc, dropped, generator_vars>>

\* the for loop is over: time.sleep(2), then the while loop starts again
Sleep ==
    /\ monitor_pc = "loop"
    /\ new_files = {}
    /\ monitor_pc' = "scan"
    /\ UNCHANGED <<picgo_path, to_upload_dir, uploaded_dir, upload_history,
                   upload_records, processed_files, new_files, dropped, calls,
                   generator_vars>>

\* Ctrl+C, or an exception raised in the loop: monitor_directory returns
StopMonitor ==
    /\ monitor_pc \in {"scan", "loop"}
    /\ monitor_pc' = "stopped"
    /\ UNCHANGED <<picgo_path, to_upload_dir, uploaded_dir, upload_history,
                   upload_records, processed_files, new_files, dropped, calls,
                   generator_vars>>

\* the steps of monitor_directory itself
MonitorStep ==
    \/ ScanFolder
    \/ ProcessImage
    \/ Sleep

NextMonitor ==
    \/ MonitorStep
    \/ DropFile
    \/ StopMonitor

SpecMonitor == InitMonitor /\ [][NextMonitor]_vars

\* the loop keeps running until it is stopped: its next step is never put
\* off for ever
SpecMonitorFair == SpecMonitor /\ WF_vars(MonitorStep)

-----------------------------------------------------------------------------
(* The config file as the claims read it: sections, data lines, given keys *)

Returned == pc \in {"parsed", "wordpress", "pure", "preview"}
Rendered == pc \in {"wordpress", "pure", "preview"}

ScalarKeys == {"title", "name", "version", "description"}

Trimmed(raw) == strip(raw)

LineIsBlankOrComment(raw) == Trimmed(raw) = <<>> \/ Trimmed(raw)[1] = "#"

LineIsHeader(raw) ==
    /\ ~LineIsBlankOrComment(raw)
    /\ Trimmed(raw)[1] = "["
    /\ Trimmed(raw)[Len(Trimmed(raw))] = "]"

LineIsData(raw) == ~LineIsBlankOrComment(raw) /\ ~LineIsHeader(raw)

\* the name between the brackets of a header line
HeaderName(raw) == strip(SubSeq(Trimmed(raw), 2, Len(Trimmed(raw)) - 1))

\* the section line i of the file t lies in: that of the nearest header above it
SectionAt(t, i) ==
    LET above == {j \in 1..(i - 1) : LineIsHeader(t[j])}
    IN  IF above = {} THEN None
        ELSE HeaderName(t[CHOOSE j \in above : \A k \in above : k <= j])

\* the positions of the data lines of section sec
DataLinesOf(t, sec) == {i \in 1..Len(t) : LineIsData(t[i]) /\ SectionAt(t, i) = sec}

\* the members of a set of positions, in increasing order
RECURSIVE InOrder(_)
InOrder(S) ==
    IF S = {} THEN <<>>
    ELSE LET m == CHOOSE x \in S : \A y \in S : x <= y IN <<m>> \o InOrder(S \ {m})

HasEquals(raw) == \E i \in 1..Len(raw) : raw[i] = "="

FirstEquals(raw) == CHOOSE i \in 1..Len(raw) : raw[i] = "=" /\ \A j \in 1..(i - 1) : raw[j] # "="

\* the trimmed text before and after the first "=" of a line that has one
KeyOf(raw) == strip(SubSeq(raw, 1, FirstEquals(raw) - 1))
ValueOf(raw) == strip(SubSeq(raw, FirstEquals(raw) + 1, Len(raw)))

\* the positions of the Software-Info lines that give the key
GivenAt(t, key) ==
    {i \in DataLinesOf(t, SoftwareInfoSection) : HasEquals(t[i]) /\ KeyOf(t[i]) = <<key>>}

IsGiven(t, key) == GivenAt(t, key) # {}

\* the value the file gives the key: that of its last line for the key
Given(t, key) == ValueOf(t[CHOOSE i \in GivenAt(t, key) : \A j \in GivenAt(t, key) : j <= i])

-----------------------------------------------------------------------------
(* C1: whenever an error is raised while the config is read or scanned, the *)
(* dict returned is exactly the minimal fallback: title = file stem, name = *)
(* the unknown placeholder, version = 1.0.0, description = the error        *)
(* marker, and nothing collected before the error is left in it.            *)
C1_FallbackOnError ==
    (Returned /\ error) =>
        /\ DOMAIN software_info = ScalarKeys
        /\ software_info["title"] = stem
        /\ software_info["name"] = UnknownSoftware
        /\ software_info["version"] = DefaultVersion
        /\ software_info["description"] = Str(ParseErrorMarker)

\* an error raised after two extra notes had been collected into the dict
C1_Witness ==
    /\ Returned /\ error
    /\ Cardinality(DataLinesOf(lines, ExtraInfoSection)) = 2

(* C2: after the full scan the returned dict has title = the given title,   *)
(* else the given name, else the file stem; name = the given name, else the *)
(* defaulted title; version = the given version, else 1.0.0; description =  *)
(* the given description, else the empty string; all four are present.      *)
C2_PostScanDefaults ==
    (Returned /\ ~error) =>
        /\ ScalarKeys \subseteq DOMAIN software_info
        /\ software_info["title"] =
               (IF IsGiven(lines, "title") THEN Given(lines, "title")
                ELSE IF IsGiven(lines, "name") THEN Given(lines, "name")
                ELSE stem)
        /\ software_info["name"] =
               (IF IsGiven(lines, "name") THEN Given(lines, "name")
                ELSE software_info["title"])
        /\ software_info["version"] =
               (IF IsGiven(lines, "version") THEN Given(lines, "version")
                ELSE DefaultVersion)
        /\ software_info["description"] =
               (IF IsGiven(lines, "description")
                THEN DescriptionValue(Given(lines, "description"))
                ELSE Str(<<>>))

\* a file that gives a non-empty name and no title
C2_Witness ==
    /\ Returned /\ ~error
    /\ IsGiven(lines, "name") /\ ~IsGiven(lines, "title")
    /\ software_info["title"] = <<"b">>

NoSoftwareInfoSection(t) ==
    \A i \in 1..Len(t) : LineIsHeader(t[i]) => HeaderName(t[i]) # SoftwareInfoSection

(* C3 as stated: for a file with no Software-Info section the returned dict *)
(* has title = file stem, name = the unknown placeholder, version = 1.0.0.  *)
C3_Original ==
    (Returned /\ ~error /\ NoSoftwareInfoSection(lines)) =>
        /\ software_info["title"] = stem
        /\ software_info["name"] = UnknownSoftware
        /\ software_info["version"] = DefaultVersion

(* C3 amended: for a file with no Software-Info section the returned dict   *)
(* has title = file stem, name = file stem (the defaulted title), version = *)
(* 1.0.0.                                                                   *)
C3_NoSoftwareInfoSection ==
    (Returned /\ ~error /\ NoSoftwareInfoSection(lines)) =>
        /\ software_info["title"] = stem
        /\ software_info["name"] = stem
        /\ software_info["version"] = DefaultVersion

\* a file with title and name lines, none of them in a Software-Info section
C3_Witness ==
    /\ Returned /\ ~error /\ NoSoftwareInfoSection(lines)
    /\ \E i, j \in 1..Len(lines) :
          /\ LineIsData(lines[i]) /\ HasEquals(lines[i]) /\ KeyOf(lines[i]) = <<"title">>
          /\ LineIsData(lines[j]) /\ HasEquals(lines[j]) /\ KeyOf(lines[j]) = <<"name">>

(* C4: for every config text and every non-empty file stem, the title of    *)
(* the returned dict is a non-empty string.                                 *)
C4_TitleNonEmpty ==
    (Returned /\ stem # <<>>) =>
        "title" \in DOMAIN software_info /\ software_info["title"] # <<>>

-----------------------------------------------------------------------------
(* The fragment as the claims read it *)

\* the positions of a symbol in a string
Positions(out, symbol) == {i \in 1..Len(out) : out[i] = symbol}

\* the first position of a symbol at or after position i, 0 if there is none
NextAt(out, symbol, i) ==
    LET later == {k \in Positions(out, symbol) : k >= i}
    IN  IF later = {} THEN 0 ELSE CHOOSE k \in later : \A m \in later : k <= m

\* extra notes that are absent, empty, or blank in every entry
ExtraNotesBlank(info) ==
    \/ "extra_info" \notin DOMAIN info
    \/ /\ info["extra_info"].ty = "str"
       /\ strip(info["extra_info"].v) = <<>>
    \/ /\ info["extra_info"].ty = "list"
       /\ \A i \in 1..Len(info["extra_info"].v) : strip(info["extra_info"].v[i]) = <<>>

(* C5: for every Record whose extra notes are absent, empty, or a sequence  *)
(* of entries that are all blank after trimming, neither the fragment of    *)
(* generate_wordpress_content nor that of generate_pure_content contains    *)
(* the other-info heading.                                                  *)
C5_NoOtherInfoHeadingWhenBlank ==
    (Rendered /\ ExtraNotesBlank(software_info)) =>
        /\ Positions(wordpress_content, OtherInfoHeading) = {}
        /\ pc = "pure" => Positions(html_content, OtherInfoHeading) = {}

Headings ==
    <<IntroHeading, FeaturesHeading, ScreenshotsHeading, DownloadsHeading, OtherInfoHeading>>

IsHeading(symbol) == \E r \in 1..Len(Headings) : Headings[r] = symbol

\* the place of a heading in the fixed order
Rank(heading) == CHOOSE r \in 1..Len(Headings) : Headings[r] = heading

\* the headings of a fragment, in the order they are emitted
HeadingsOf(out) == SelectSeq(out, IsHeading)

InFixedOrder(out) ==
    /\ out # <<>> /\ out[1] = IntroHeading
    /\ \A i, j \in 1..Len(HeadingsOf(out)) :
          i < j => Rank(HeadingsOf(out)[i]) < Rank(HeadingsOf(out)[j])

(* C6: for every Record the fragment starts with the introduction heading,  *)
(* and the headings it contains follow the order introduction, feature      *)
(* list, screenshots, downloads, other info, each at most once.             *)
C6_FixedSectionOrder ==
    /\ Rendered => InFixedOrder(wordpress_content)
    /\ pc = "pure" => InFixedOrder(html_content)

\* a Record that renders all five sections
C6_Witness == Rendered /\ HeadingsOf(wordpress_content) = Headings

\* the symbols between [downloads] and [/downloads]
DownloadsBlock(out) ==
    SubSeq(out, NextAt(out, "[downloads]", 1) + 1, NextAt(out, "[/downloads]", 1) - 1)

LinkOpen == " [link url=\""
LinkClose == "\"][/link]"

\* the number of rows of n links, 4 to a row
Rows(n) == (n + 3) \div 4

DownloadsLayout(out, links) ==
    LET n == Len(links)
        block == DownloadsBlock(out)
        opens == InOrder(Positions(block, LinkOpen))
        closes == InOrder(Positions(block, LinkClose))
        breaks == Positions(block, "\n")
    IN  /\ Len(opens) = n /\ Len(closes) = n
        /\ \A i \in 1..n :
              /\ opens[i] < closes[i]
              /\ i < n => closes[i] < opens[i + 1]
              /\ SubSeq(block, opens[i] + 1, opens[i] + Len(links[i].v["url"]))
                     = links[i].v["url"]
              /\ (closes[i] + 1 \in breaks) <=> (i % 4 = 0 \/ i = n)
        /\ Cardinality({k \in breaks : k - 1 \in Positions(block, LinkClose)}) = Rows(n)
        /\ \A k \in breaks : k + 1 \notin breaks
        /\ block[Len(block)] = "\n"

(* C7: for every non-empty sequence of n download links the block between   *)
(* [downloads] and [/downloads] holds exactly n link short-codes in input   *)
(* order, a line break right after every 4th link and exactly one after the *)
(* last link: ceil(n/4) line breaks follow links, never two in a row.       *)
C7_DownloadsLayout ==
    (Rendered /\ Get(software_info, "download_links", <<>>) # <<>>) =>
        DownloadsLayout(wordpress_content, software_info["download_links"])

\* 8 links, two full rows: the line break after the 8th link is the last one
C7_Witness ==
    /\ Rendered
    /\ Len(Get(software_info, "download_links", <<>>)) = 8
    /\ Cardinality(Positions(DownloadsBlock(wordpress_content), "\n")) = 3

-----------------------------------------------------------------------------
(* Screenshots *)

\* the Screenshot-List lines that carry a value, in file order
ScreenshotValueLines(t) ==
    InOrder({i \in DataLinesOf(t, ScreenshotListSection) : HasEquals(t[i])})

\* the position of the n-th "|" of a value; 0 before the first, past the end after the last
PipeAt(value, n) ==
    LET pipes == InOrder(Positions(value, "|"))
    IN  IF n = 0 THEN 0 ELSE IF n > Len(pipes) THEN Len(value) + 1 ELSE pipes[n]

PartCount(value) == Cardinality(Positions(value, "|")) + 1

\* the n-th of the parts the value splits into on "|", trimmed
Part(value, n) == strip(SubSeq(value, PipeAt(value, n - 1) + 1, PipeAt(value, n) - 1))

\* the ScreenshotRef of a value of 1, 2 or 3 parts
RefOfValue(value) ==
    IF PartCount(value) = 3
    THEN [caption |-> Part(value, 1), attribution |-> Part(value, 2), url |-> Part(value, 3)]
    ELSE IF PartCount(value) = 2
    THEN [caption |-> Part(value, 1), url |-> Part(value, 2)]
    ELSE [url |-> value]

\* the screenshots of the returned dict are those of the value lines, in order
ScreenshotsParsed ==
    LET at == ScreenshotValueLines(lines)
        screenshots == Get(software_info, "screenshots", <<>>)
    IN  /\ Len(screenshots) = Len(at)
        /\ \A n \in 1..Len(at) :
              PartCount(ValueOf(lines[at[n]])) <= 3 =>
                  screenshots[n] = Dict(RefOfValue(ValueOf(lines[at[n]])))

\* the block of the n-th screenshot (1-based), with or without the attribute
ImageBlock(ref, n, with_attribution) ==
    <<"[insertimg caption='">>
        \o (IF "caption" \in DOMAIN ref THEN ref["caption"]
            ELSE <<"software_screenshot ", ToString(n)>>)
        \o (IF with_attribution THEN <<"' attribution='">> \o ref["attribution"] ELSE <<>>)
        \o <<"']", "<img src=\"">> \o ref["url"] \o <<"\" />", "[/insertimg]", "\n">>

\* the symbols from the first image block to the blank line that ends the section
ScreenshotsBody(out) ==
    LET first == NextAt(out, ScreenshotsHeading, 1) + 2
        last == CHOOSE k \in first..Len(out) :
                    /\ out[k] = "\n" /\ out[k - 1] = "\n"
                    /\ \A m \in first..(k - 1) : ~(out[m] = "\n" /\ out[m - 1] = "\n")
    IN  SubSeq(out, first, last - 1)

AttributionPresent(ref) == "attribution" \in DOMAIN ref
AttributionNonEmpty(ref) == "attribution" \in DOMAIN ref /\ ref["attribution"] # <<>>

\* the blocks of the screenshots from the n-th on; an attribution that is the
\* empty string counts as present when empty_counts
RECURSIVE ImageBlocks(_, _, _)
ImageBlocks(screenshots, n, empty_counts) ==
    IF n > Len(screenshots) THEN <<>>
    ELSE ImageBlock(screenshots[n].v, n,
                    IF empty_counts THEN AttributionPresent(screenshots[n].v)
                    ELSE AttributionNonEmpty(screenshots[n].v))
             \o ImageBlocks(screenshots, n + 1, empty_counts)

(* C8 as stated: a Screenshot-List value of 3 parts yields caption,         *)
(* attribution, url, one of 2 parts caption, url, one of 1 part the url     *)
(* only; the n-th screenshot is rendered as one image block whose caption   *)
(* is the parsed one or the default "screenshot n", which has an            *)
(* attribution attribute exactly when an attribution is present, and whose  *)
(* img src is the url.                                                      *)
C8_Original ==
    /\ (Returned /\ ~error) => ScreenshotsParsed
    /\ (Rendered /\ ~error /\ "screenshots" \in DOMAIN software_info) =>
           ScreenshotsBody(wordpress_content)
               = ImageBlocks(software_info["screenshots"], 1, TRUE)

(* C8 amended: as stated, but the block has an attribution attribute        *)
(* exactly when the attribution is present and not the empty string.        *)
C8_ScreenshotMapping ==
    /\ (Returned /\ ~error) => ScreenshotsParsed
    /\ (Rendered /\ ~error /\ "screenshots" \in DOMAIN software_info) =>
           ScreenshotsBody(wordpress_content)
               = ImageBlocks(software_info["screenshots"], 1, FALSE)

\* a 3-part value and a url-only value, rendered as the 1st and 2nd block
C8_Witness ==
    /\ Rendered /\ ~error
    /\ Len(Get(software_info, "screenshots", <<>>)) = 2
    /\ AttributionNonEmpty(software_info["screenshots"][1].v)
    /\ DOMAIN software_info["screenshots"][2].v = {"url"}

-----------------------------------------------------------------------------
(* Description paragraphs *)

\* the positions where the non-overlapping occurrences of "||" start, found
\* from left to right from position i on
RECURSIVE DelimitersFrom(_, _)
DelimitersFrom(value, i) ==
    IF i + 1 > Len(value) THEN <<>>
    ELSE IF value[i] = "|" /\ value[i + 1] = "|"
         THEN <<i>> \o DelimitersFrom(value, i + 2)
         ELSE DelimitersFrom(value, i + 1)

\* the n-th of the segments the delimiters cut the value into, trimmed
Segment(value, n) ==
    LET d == DelimitersFrom(value, 1)
        from == IF n = 1 THEN 1 ELSE d[n - 1] + 2
        to == IF n > Len(d) THEN Len(value) ELSE d[n] - 1
    IN  strip(SubSeq(value, from, to))

\* the texts of the paragraph blocks that start at position i of a fragment
RECURSIVE ParagraphsAt(_, _)
ParagraphsAt(out, i) ==
    IF i <= Len(out) /\ out[i] = "<p>"
    THEN LET close == NextAt(out, "</p>", i)
         IN  <<SubSeq(out, i + 1, close - 1)>> \o ParagraphsAt(out, close + 2)
    ELSE <<>>

\* the paragraphs of the introduction: those right after its heading line
IntroParagraphs(out) == ParagraphsAt(out, 3)

\* a description with k >= 1 delimiters is stored and rendered as k + 1 segments
DescriptionSplit(value) ==
    LET k == Len(DelimitersFrom(value, 1))
        segments == [n \in 1..(k + 1) |-> Segment(value, n)]
    IN  k >= 1 =>
            /\ software_info["description"] = List(segments)
            /\ Rendered => IntroParagraphs(wordpress_content) = segments

(* C9 as stated: a description value with k >= 1 non-overlapping "||" is    *)
(* stored as the sequence of its k + 1 trimmed segments and rendered as     *)
(* k + 1 paragraphs in that order; a value without "||" is stored as one    *)
(* string and rendered as one paragraph.                                    *)
C9_Original ==
    (Returned /\ ~error /\ IsGiven(lines, "description")) =>
        LET value == Given(lines, "description")
        IN  /\ DescriptionSplit(value)
            /\ DelimitersFrom(value, 1) = <<>> =>
                   /\ software_info["description"] = Str(value)
                   /\ Rendered => IntroParagraphs(wordpress_content) = <<value>>

(* C9 amended: as stated, but a value without "||" is rendered as one       *)
(* paragraph when it is not empty and as no paragraph when it is empty.     *)
C9_DescriptionSplitting ==
    (Returned /\ ~error /\ IsGiven(lines, "description")) =>
        LET value == Given(lines, "description")
        IN  /\ DescriptionSplit(value)
            /\ DelimitersFrom(value, 1) = <<>> =>
                   /\ software_info["description"] = Str(value)
                   /\ Rendered =>
                          IntroParagraphs(wordpress_content)
                              = (IF value = <<>> THEN <<>> ELSE <<value>>)

\* a description of three segments, rendered
C9_Witness ==
    /\ Rendered /\ ~error /\ IsGiven(lines, "description")
    /\ Len(DelimitersFrom(Given(lines, "description"), 1)) = 2
    /\ Len(IntroParagraphs(wordpress_content)) = 3

-----------------------------------------------------------------------------
(* Features *)

\* the feature a line of the Feature-List section stands for
FeatureOf(raw) == IF HasEquals(raw) THEN ValueOf(raw) ELSE Trimmed(raw)

\* the features of the file: one per data line of the section, in file order
FeaturesOf(t) ==
    LET at == InOrder(DataLinesOf(t, FeatureListSection))
    IN  [n \in 1..Len(at) |-> FeatureOf(t[at[n]])]

\* the texts of the list items of a fragment, in order
ListItemsOf(out) ==
    LET at == InOrder(Positions(out, " <li>"))
    IN  [n \in 1..Len(at) |-> SubSeq(out, at[n] + 1, NextAt(out, "</li>", at[n]) - 1)]

(* C10: every non-empty, non-comment line under Feature-List gives exactly  *)
(* one feature, the trimmed text after the first "=" if the line has one    *)
(* and the trimmed line otherwise; the features of the returned dict and    *)
(* the list items of the fragment are these, in file order, also when the   *)
(* section is interrupted by other sections and resumed.                    *)
C10_FeaturesInFileOrder ==
    /\ (Returned /\ ~error) => Get(software_info, "features", <<>>) = FeaturesOf(lines)
    /\ (Rendered /\ ~error) => ListItemsOf(wordpress_content) = FeaturesOf(lines)

\* a Feature-List section that is interrupted after its first feature and
\* resumed with a line that has two "="
C10_Witness ==
    /\ Rendered /\ ~error
    /\ Len(lines) = 5
    /\ DataLinesOf(lines, FeatureListSection) = {2, 5}
    /\ LineIsHeader(lines[3]) /\ HeaderName(lines[3]) # FeatureListSection
    /\ ListItemsOf(wordpress_content) = <<<<"a">>, <<"b", "=", "a">>>>

-----------------------------------------------------------------------------
(* The Download-Links lines as the claims read them: tokens between runs of *)
(* whitespace                                                               *)

\* the positions at which a token of the line starts
TokenStarts(raw) ==
    {i \in 1..Len(raw) : raw[i] \notin Whitespace /\ (i = 1 \/ raw[i - 1] \in Whitespace)}

TokenCount(raw) == Cardinality(TokenStarts(raw))

\* the token that starts at position i
TokenFrom(raw, i) ==
    LET ends == {k \in i..Len(raw) : k = Len(raw) \/ raw[k + 1] \in Whitespace}
    IN  SubSeq(raw, i, CHOOSE k \in ends : \A m \in ends : k <= m)

\* the n-th token of the line
Token(raw, n) == TokenFrom(raw, InOrder(TokenStarts(raw))[n])

\* the link a Download-Links data line stands for
LinkOfLine(raw) ==
    ("url" :> Token(raw, 1))
        @@ ("code" :> IF TokenCount(raw) >= 2 THEN Token(raw, 2) ELSE <<>>)

DownloadsParsed ==
    LET at == InOrder(DataLinesOf(lines, DownloadLinksSection))
        links == Get(software_info, "download_links", <<>>)
    IN  /\ Len(links) = Len(at)
        /\ \A n \in 1..Len(at) : links[n] = Dict(LinkOfLine(lines[at[n]]))

\* the short-code of a link: the code attribute exactly when the code is not blank
ShortCodeOf(link) ==
    <<LinkOpen>> \o link["url"]
        \o (IF Trimmed(link["code"]) # <<>> THEN <<"\" code=\"">> \o link["code"] ELSE <<>>)
        \o <<LinkClose>>

ShortCodesRendered(out, links) ==
    LET block == DownloadsBlock(out)
        opens == InOrder(Positions(block, LinkOpen))
        closes == InOrder(Positions(block, LinkClose))
    IN  /\ Len(opens) = Len(links) /\ Len(closes) = Len(links)
        /\ \A i \in 1..Len(links) :
              SubSeq(block, opens[i], closes[i]) = ShortCodeOf(links[i].v)

(* C11: every data line of the Download-Links section gives exactly one     *)
(* link, in file order, whose url is the first whitespace-separated token   *)
(* and whose code is the second token, or empty when there is none; later   *)
(* tokens are dropped.  A rendered link short-code carries the code         *)
(* attribute exactly when the code is non-empty after trimming.             *)
C11_DownloadLinks ==
    /\ (Returned /\ ~error) => DownloadsParsed
    /\ (Rendered /\ Get(software_info, "download_links", <<>>) # <<>>) =>
           ShortCodesRendered(wordpress_content, software_info["download_links"])

\* a file with a three-token link line and a one-token link line, rendered
C11_Witness ==
    /\ Rendered /\ ~error
    /\ \E i, j \in DataLinesOf(lines, DownloadLinksSection) :
          /\ i < j /\ TokenCount(lines[i]) = 3 /\ TokenCount(lines[j]) = 1
          /\ Len(software_info["download_links"]) = 2
          /\ Positions(wordpress_content, "\" code=\"") # {}

-----------------------------------------------------------------------------
(* File names as the claims read them *)

\* the nine characters a file name must not hold
Stripped == {"\\", "/", ":", "*", "?", "\"", "<", ">", "|"}

\* the title a file is named after
TitleForFile == Get(software_info, "title", DefaultSoftware)

\* the positions of the characters of a title that are kept
KeptPositions(title) == {i \in 1..Len(title) : title[i] \notin Stripped}

\* the place of the kept character at position i among the kept characters
PlaceOf(title, i) == Cardinality({j \in KeptPositions(title) : j <= i})

\* safe is the safe name of the title: the kept characters in order, every
\* space an underscore, no more than the first 100 of them
IsSafeName(title, safe) ==
    /\ Len(safe) = IF Cardinality(KeptPositions(title)) > 100 THEN 100
                   ELSE Cardinality(KeptPositions(title))
    /\ \A i \in KeptPositions(title) :
          PlaceOf(title, i) <= 100 =>
              safe[PlaceOf(title, i)] = IF title[i] = " " THEN "_" ELSE title[i]

\* the name of the content file without directory and extension
SafeTitleOf(path) == SubSeq(path, 2, Len(path) - 1)

(* C12: the name sanitize_filename returns is the input with every          *)
(* character of the nine forbidden ones removed, every space replaced by an *)
(* underscore and the result cut to its first 100 characters: it holds no   *)
(* forbidden character, no space, and is never longer than 100.             *)
C12_SanitizedName ==
    html_file # None =>
        LET safe == SafeTitleOf(html_file)
        IN  /\ IsSafeName(TitleForFile, safe)
            /\ \A i \in 1..Len(safe) : safe[i] \notin Stripped /\ safe[i] # " "
            /\ Len(safe) <= 100

\* a title longer than 100 after the removal, with a space and a forbidden
\* character in it
C12_Witness ==
    /\ html_file # None
    /\ Cardinality(KeptPositions(TitleForFile)) > 100
    /\ \E i, j \in 1..Len(TitleForFile) :
          TitleForFile[i] = " " /\ TitleForFile[j] \in Stripped
    /\ Len(SafeTitleOf(html_file)) = 100

-----------------------------------------------------------------------------
(* The three artifacts of a config as the claims read them *)

\* the text of the file the current call wrote under the directory
ArtifactIn(dir) == files[CHOOSE path \in wrote : path[1] = dir]

\* the text a preview page shows in its code block
EmbeddedIn(page) ==
    SubSeq(page, NextAt(page, "</div>...<div class=\"code-block\">\n", 1) + 1,
           Len(page) - 1)

(* C13: for every Record the parser produces, the payload file, the content *)
(* file and the code block of the preview page hold one and the same        *)
(* string.                                                                  *)
C13_SameFragmentEverywhere ==
    pc = "preview" =>
        /\ ArtifactIn("output/") = ArtifactIn("contents/")
        /\ EmbeddedIn(ArtifactIn("previews/")) = ArtifactIn("contents/")

\* a parsed file without extra notes that renders two sections or more
C13_Witness ==
    /\ pc = "preview" /\ ~error
    /\ "extra_info" \notin DOMAIN software_info
    /\ Len(HeadingsOf(ArtifactIn("output/"))) >= 2
    /\ EmbeddedIn(ArtifactIn("previews/")) = ArtifactIn("output/")

-----------------------------------------------------------------------------
(* The batch as the claims read it: the calls that ended, by run and config *)

Calls == 1..Len(passes)

\* the calls of the current run, in the order they ended
CallsOfRun == SelectSeq(passes, LAMBDA e : e.run = run)

\* two calls read the same config text under the same conditions
SameProcessing(j, k) ==
    /\ passes[j].config = passes[k].config
    /\ passes[j].error = passes[k].error
    /\ passes[j].ok /\ passes[k].ok

(* C14: a parse or render call depends on nothing an earlier call left      *)
(* behind: processing the same config text a second time, alone or after    *)
(* other configs, gives the same Record and writes files with exactly the   *)
(* same names and contents as the first time, and two calls that render     *)
(* equal Records write equal files.                                         *)
C14_Reprocessing ==
    \A j, k \in Calls :
        /\ SameProcessing(j, k) =>
               passes[j].info = passes[k].info /\ passes[j].wrote = passes[k].wrote
        /\ (passes[j].ok /\ passes[k].ok /\ passes[j].info = passes[k].info) =>
               passes[j].wrote = passes[k].wrote

\* a config processed in the first run and again in the second, after
\* another config was processed in between
C14_Witness ==
    \E j, m, k \in Calls :
        /\ j < m /\ m < k
        /\ SameProcessing(j, k) /\ ~passes[j].error
        /\ passes[j].run # passes[k].run
        /\ passes[m].config # passes[j].config /\ passes[m].ok
        /\ Cardinality(DOMAIN passes[k].wrote) = 3

\* the title and the introduction paragraphs a call must produce for the
\* config text alone
TitleFor(e) ==
    LET text == configs[e.config]
    IN  IF e.error THEN e.config
        ELSE IF IsGiven(text, "title") THEN Given(text, "title")
        ELSE IF IsGiven(text, "name") THEN Given(text, "name")
        ELSE e.config

ParagraphsFor(e) ==
    LET text == configs[e.config]
    IN  IF e.error THEN <<ParseErrorMarker>>
        ELSE IF IsGiven(text, "description") /\ Given(text, "description") # <<>>
        THEN <<Given(text, "description")>>
        ELSE <<>>

\* the files of a call that succeeded are those of its own config text
OwnFiles(e) ==
    /\ Cardinality(DOMAIN e.wrote) = 3
    /\ \A path \in DOMAIN e.wrote :
          /\ IsSafeName(TitleFor(e), SafeTitleOf(path))
          /\ path[1] \in {"contents/", "output/"} =>
                 IntroParagraphs(e.wrote[path]) = ParagraphsFor(e)

BatchSafety ==
    \* every config is attempted exactly once, in turn
    /\ Len(CallsOfRun) = index - 1
    /\ \A i \in 1..Len(CallsOfRun) : CallsOfRun[i].config = config_files[i]
    \* a parse error gives the fallback output for that file, a failure of one
    \* call leaves the output of every other call what its own text makes it
    /\ \A k \in Calls : passes[k].ok => OwnFiles(passes[k])
    \* the result list holds exactly the configs whose generation succeeded
    /\ LET done == SelectSeq(CallsOfRun, LAMBDA e : e.ok)
       IN  /\ Len(generated_files) = Len(done)
           /\ \A i \in 1..Len(done) :
                 /\ generated_files[i][1] = done[i].config
                 /\ generated_files[i][2] \in DOMAIN done[i].wrote
                 /\ generated_files[i][3] \in DOMAIN done[i].wrote

(* C15: in a batch run every config file is attempted exactly once, in      *)
(* turn; a parse error in one file yields the fallback output for that      *)
(* file; a failure while generating one file neither aborts the loop nor    *)
(* changes what is generated for the others; every run terminates, and the  *)
(* result list holds exactly the configs whose generation succeeded.        *)
C15_BatchIsolation ==
    /\ []BatchSafety
    /\ (pc = "next") ~> (pc = "done")

\* a run that ended with a failed call followed by a call that succeeded
C15_Witness ==
    /\ pc = "done"
    /\ Len(generated_files) = 1
    /\ \E j, k \in 1..Len(CallsOfRun) :
          j < k /\ ~CallsOfRun[j].ok /\ CallsOfRun[k].ok
              /\ generated_files[1][1] = CallsOfRun[k].config

(* C20: in a batch run two distinct config files never write to the same    *)
(* output, preview or payload file, and after the batch the content file of *)
(* every config that was generated successfully holds the fragment rendered *)
(* from that config's own Record.                                           *)
C20_NoSharedOutputFile ==
    /\ \A j, k \in Calls :
          (passes[j].run = passes[k].run /\ passes[j].config # passes[k].config) =>
              (DOMAIN passes[j].wrote) \cap (DOMAIN passes[k].wrote) = {}
    /\ pc = "done" =>
          \A k \in Calls :
              (passes[k].run = run /\ passes[k].ok) =>
                  \A path \in DOMAIN passes[k].wrote :
                      path[1] = "output/" => files[path] = passes[k].wrote[path]

-----------------------------------------------------------------------------
(* The scan of the lines as the claims read it *)

KnownSections ==
    {SoftwareInfoSection, FeatureListSection, ScreenshotListSection,
     DownloadLinksSection, ExtraInfoSection}

\* the line a step of the scan has just taken
TakenLine == lines'[Len(lines')]

\* what a data line may change: the bucket of the section it lies in
DataLineEffect ==
    /\ current_section' = current_section
    /\ current_section = SectionAt(lines', Len(lines'))
    /\ software_info' # software_info =>
           current_section \in {SoftwareInfoSection, ExtraInfoSection}
    /\ temp_features' # temp_features => current_section = FeatureListSection
    /\ temp_screenshots' # temp_screenshots => current_section = ScreenshotListSection
    /\ temp_downloads' # temp_downloads => current_section = DownloadLinksSection

(* C16: in every step of the scan a blank line or a line starting with #    *)
(* changes nothing, in whatever section; a [Name] line changes the current  *)
(* section and nothing else; any other line leaves the current section,     *)
(* which is that of the nearest header above it, and changes at most the    *)
(* bucket of that section, hence nothing before the first header or under   *)
(* an unrecognized name; no such step raises an error.                      *)
C16_SectionScan ==
    [][(pc = "scan" /\ Len(lines') = Len(lines) + 1) =>
          /\ pc' = "scan" /\ error' = error
          /\ LineIsBlankOrComment(TakenLine) =>
                 UNCHANGED <<current_section, software_info, temp_features,
                             temp_screenshots, temp_downloads>>
          /\ LineIsHeader(TakenLine) =>
                 /\ current_section' = HeaderName(TakenLine)
                 /\ UNCHANGED <<software_info, temp_features, temp_screenshots,
                                temp_downloads>>
          /\ LineIsData(TakenLine) => DataLineEffect]_vars

\* a data line above the first header that left no trace, then a comment
\* line skipped under the Feature-List header
C16_Witness ==
    /\ pc = "scan" /\ Len(lines) = 3
    /\ LineIsData(lines[1])
    /\ LineIsHeader(lines[2]) /\ HeaderName(lines[2]) = FeatureListSection
    /\ LineIsBlankOrComment(lines[3]) /\ Trimmed(lines[3]) # <<>>
    /\ current_section = FeatureListSection
    /\ temp_features = <<>>
    /\ software_info = EmptyDict

-----------------------------------------------------------------------------
(* Screenshot-List lines *)

\* the number of ScreenshotRefs of the returned dict
ScreenshotCount == Len(Get(software_info, "screenshots", <<>>))

\* the value a Screenshot-List line stands for when a line without "=" is
\* taken verbatim
VerbatimValue(raw) == IF HasEquals(raw) THEN ValueOf(raw) ELSE Trimmed(raw)

\* the url of a ScreenshotRef is the last of the first three parts of its value
UrlOfValue(value) ==
    Part(value, IF PartCount(value) >= 3 THEN 3 ELSE PartCount(value))

(* C17 as stated: every data line of the Screenshot-List section gives      *)
(* exactly one ScreenshotRef, in file order, from the text after the first  *)
(* "=" or, without "=", from the whole line.                                *)
C17_Original ==
    (Returned /\ ~error) =>
        LET at == InOrder(DataLinesOf(lines, ScreenshotListSection))
        IN  /\ ScreenshotCount = Len(at)
            /\ \A n \in 1..Len(at) :
                  software_info["screenshots"][n].v["url"]
                      = UrlOfValue(VerbatimValue(lines[at[n]]))

(* C17 amended: a data line of the Screenshot-List section that contains    *)
(* "=" gives exactly one ScreenshotRef, in file order, from the text after  *)
(* the first "="; a line without "=" gives none.                            *)
C17_ScreenshotLines ==
    (Returned /\ ~error) =>
        LET at == ScreenshotValueLines(lines)
        IN  /\ ScreenshotCount = Len(at)
            /\ \A n \in 1..Len(at) :
                  software_info["screenshots"][n].v["url"]
                      = UrlOfValue(ValueOf(lines[at[n]]))

\* a section with a line with "=" and a line without
C17_Witness ==
    /\ Returned /\ ~error
    /\ ScreenshotCount = 1
    /\ Cardinality(DataLinesOf(lines, ScreenshotListSection)) = 2

-----------------------------------------------------------------------------
(* The introduction of a Record with a blank description *)

IsBlank(text) == Trimmed(text) = <<>>

\* the description is empty after trimming: an empty or whitespace-only
\* string, or a sequence whose entries are all blank
DescriptionBlank(info) ==
    LET description == Get(info, "description", Str(<<>>))
    IN  IF description.ty = "list"
        THEN \A n \in 1..Len(description.v) : IsBlank(description.v[n])
        ELSE IsBlank(description.v)

(* C18: the introduction holds paragraph blocks only if the description is  *)
(* non-empty after trimming: for the empty string, a whitespace-only string *)
(* and a sequence of blank entries the heading is followed by no paragraph  *)
(* block.                                                                   *)
C18_NoParagraphWhenBlank ==
    (Rendered /\ DescriptionBlank(software_info)) =>
        /\ wordpress_content[1] = IntroHeading
        /\ IntroParagraphs(wordpress_content) = <<>>

-----------------------------------------------------------------------------
(* The file name the preview page shows *)

\* the text between the file label of the file-info box and the end of the box
ShownIn(page) ==
    SubSeq(page, NextAt(page, "<br>file: ", 1) + 1,
           NextAt(page, "</div>...<div class=\"code-block\">\n", 1) - 1)

\* a path without its directory
NameOf(path) == Tail(path)

(* C19: for every title the file name shown in the file-info box of the     *)
(* preview page is the name of the content file generate_html_file wrote,   *)
(* the sanitized title followed by .html.                                   *)
C19_ShownNameIsWrittenName ==
    pc = "preview" => ShownIn(files[preview_file]) = NameOf(html_file)

-----------------------------------------------------------------------------
(* C21: the upload monitor *)

\* an image file, by its suffix
IsImageName(name) == name[2] \in Extensions \cup {upper(ext) : ext \in Extensions}

\* the file lies in the watched folder under an image name
Waiting(file) ==
    \E name \in DOMAIN to_upload_dir : to_upload_dir[name] = file /\ IsImageName(name)

\* process_image has been called on the file
Processed(file) == \E k \in 1..Len(calls) : calls[k].file = file

\* no dropped file is passed to process_image twice
AtMostOnce == \A i, j \in 1..Len(calls) : calls[i].file = calls[j].file => i = j

\* C21: while monitor_directory runs, every image file that appears in the
\* watched folder is eventually passed to process_image, exactly once for each
\* dropped file, whatever happened to earlier files: also a file dropped under
\* the name of an earlier file that was uploaded and moved away, and never a
\* second time a file whose upload failed.
C21_UploadMonitorLiveness ==
    /\ []AtMostOnce
    /\ \A file \in 1..MaxDrops :
          Waiting(file) ~> (Processed(file) \/ monitor_pc = "stopped")

====
